---- MODULE Spec2Model ----
(***************************************************************************)
(* Fractal mesh generators of gen-fractal-model (utils/fractalGenerators): *)
(* addUniqueVertex, subdivideTetrahedron / generateSierpinskiTetrahedron,  *)
(* subdivideCube / generateMengerSponge, subdivideOctahedron /             *)
(* generateSierpinskiOctahedron.                                           *)
(*                                                                         *)
(* Numbers.  A coordinate is an integer count of 1/Unit, Unit = 2^20, so   *)
(* every value is a dyadic rational.  The inputs are restricted (Exact) to *)
(* those for which every halving and every division by three of the        *)
(* traversal is exact, so IEEE double arithmetic and the integer           *)
(* arithmetic below agree bit for bit.  toFixed(5) is computed on the      *)
(* exact value, as ECMAScript specifies it.  For the other sizes one      *)
(* coordinate axis of subdivideCube is followed in double arithmetic, with *)
(* its rounding, in a part of its own.                                     *)
(*                                                                         *)
(* Control.  The recursion is run one call-stack frame at a time: a step   *)
(* is one addUniqueVertex call, one leaf emission, one recursive call, one *)
(* skipped grid cell, or one return.                                       *)
(*                                                                         *)
(* The App component, exportToObjFile and debounce follow, each with the   *)
(* specification that runs it.                                             *)
(***************************************************************************)
EXTENDS Integers, Sequences, FiniteSets, TLC

\* a generator call and its caller
VARIABLES pc, req, stack, cur, heap, first, inputs, budget, leafCalls, objText

\* the mounted App component: React state, refs, the scene, pending timers
VARIABLES fractalParams, isPreviewDisabled, isLoading,
          isContinuousAutoRotateOn, isAutoRotatingByInactivity, isUserInteracting,
          inactivityTimeoutIdRef, animationFrameIdRef,
          suspended, resumed, output,
          scene, meshes, fractalMeshRef,
          generatedVerticesRef, generatedFacesRef, lastExport, events

\* a function returned by debounce (utils/helpers), the timers it has set and
\* the clock; callsMade and invocations record what was called and when
VARIABLES delay, timeout, timers, now, callsMade, invocations

\* one coordinate axis of a subdivideCube traversal in double arithmetic
VARIABLES axis

genVars == <<pc, req, stack, cur, heap, first, inputs, budget, leafCalls, objText>>

appVars ==
    <<fractalParams, isPreviewDisabled, isLoading,
      isContinuousAutoRotateOn, isAutoRotatingByInactivity, isUserInteracting,
      inactivityTimeoutIdRef, animationFrameIdRef,
      suspended, resumed, output,
      scene, meshes, fractalMeshRef,
      generatedVerticesRef, generatedFacesRef, lastExport, events>>

debounceVars == <<delay, timeout, timers, now, callsMade, invocations>>

libVars == <<debounceVars, axis>>

vars == <<genVars, appVars, libVars>>

(***************************************************************************)
(* Bounds and input domains                                                *)
(***************************************************************************)
MaxLevel == 2
MaxCallLevel == 1
MaxCalls == 3
\* user events explored after the mount, animation frames explored
MaxEvents == 2
MaxFrames == 2
\* calls of a debounced function explored, clock ticks explored
MaxDebounced == 3
MaxTime == 5

Unit == 2^20

Decimals == 5

Kinds == {"sierpinskiTetrahedron", "mengerSponge", "sierpinskiOctahedron"}

\* sizes: 4/2^20 ~ 3.8e-6 and 6/2^20 ~ 5.7e-6 (below the weld precision, on
\* either side of the rounding boundary 5e-6), 1.0 and 3.0
Sizes == {4, 6, Unit, 3 * Unit}
CallSizes == {6, Unit}
\* 9.0: the size whose sponge divides exactly twice
DeepSizes == {9 * Unit}

Pow(b, e) == b^e

\* the traversal of (kind, level, size) divides without remainder
Exact(kind, level, size) ==
    IF kind = "mengerSponge" THEN size % (2 * Pow(3, level)) = 0
    ELSE size % Pow(2, level) = 0

Requests ==
    {r \in [kind : Kinds, level : 0..MaxLevel, size : Sizes] :
        Exact(r.kind, r.level, r.size)}

DeepRequests ==
    {r \in [kind : Kinds, level : 0..MaxLevel, size : DeepSizes] :
        Exact(r.kind, r.level, r.size)}

CallRequests ==
    {r \in [kind : Kinds, level : 0..MaxCallLevel, size : CallSizes] :
        Exact(r.kind, r.level, r.size)}

(***************************************************************************)
(* THREE.Vector3 arithmetic                                                *)
(***************************************************************************)
Vec(x, y, z) == <<x, y, z>>

VAdd(a, b) == <<a[1] + b[1], a[2] + b[2], a[3] + b[3]>>

VSub(a, b) == <<a[1] - b[1], a[2] - b[2], a[3] - b[3]>>

Cross(a, b) ==
    <<a[2] * b[3] - a[3] * b[2], a[3] * b[1] - a[1] * b[3], a[1] * b[2] - a[2] * b[1]>>

Dot(a, b) == a[1] * b[1] + a[2] * b[2] + a[3] * b[3]

Abs(x) == IF x < 0 THEN -x ELSE x

\* p.clone().add(q).multiplyScalar(0.5)
Midpoint(p, q) == <<(p[1] + q[1]) \div 2, (p[2] + q[2]) \div 2, (p[3] + q[3]) \div 2>>

(***************************************************************************)
(* Number.prototype.toFixed(5): sign "-" iff x < 0, then the integer n     *)
(* with n / 10^5 closest to |x|, the larger n on a tie.  10^5 / 2^20 =     *)
(* 5^5 / 2^15; the quotient is split so that no product exceeds 2^31.      *)
(***************************************************************************)
FixedDigits(m) ==
    LET den == Unit \div Pow(2, Decimals)
        num == Pow(5, Decimals)
    IN  (m \div den) * num + (((m % den) * num * 2 + den) \div (2 * den))

ToFixed(x) == <<x < 0, FixedDigits(Abs(x))>>

VertexKey(vertex) == <<ToFixed(vertex[1]), ToFixed(vertex[2]), ToFixed(vertex[3])>>

(***************************************************************************)
(* GenerationOutput plus the vertexMap of the call                         *)
(***************************************************************************)
EmptyOutput ==
    [bufferVertices |-> <<>>, bufferIndices |-> <<>>,
     exportVertices |-> <<>>, exportFaces |-> <<>>, vertexMap |-> <<>>]

\* addUniqueVertex without "vertexMap.set(key, newIndex)"
addUniqueVertex_noSet(vertex, o) ==
    LET key == VertexKey(vertex)
        newIndex == Len(o.exportVertices)
    IN  IF key \in DOMAIN o.vertexMap
        THEN [index |-> o.vertexMap[key], out |-> o]
        ELSE [index |-> newIndex,
              out |-> [o EXCEPT !.bufferVertices = @ \o vertex,
                                !.exportVertices = Append(@, vertex)]]

\* addUniqueVertex pushing the coordinates before the lookup
addUniqueVertex_pushFirst(vertex, o) ==
    LET key == VertexKey(vertex)
        newIndex == Len(o.exportVertices)
        pushed == [o EXCEPT !.bufferVertices = @ \o vertex]
    IN  IF key \in DOMAIN o.vertexMap
        THEN [index |-> o.vertexMap[key], out |-> pushed]
        ELSE [index |-> newIndex,
              out |-> [pushed EXCEPT !.exportVertices = Append(@, vertex),
                                     !.vertexMap = @ @@ (key :> newIndex)]]

\* addUniqueVertex overwriting the stored point on a hit (last occurrence wins)
addUniqueVertex_lastWins(vertex, o) ==
    LET key == VertexKey(vertex)
        newIndex == Len(o.exportVertices)
    IN  IF key \in DOMAIN o.vertexMap
        THEN [index |-> o.vertexMap[key],
              out |-> [o EXCEPT !.exportVertices[o.vertexMap[key] + 1] = vertex]]
        ELSE [index |-> newIndex,
              out |-> [o EXCEPT !.bufferVertices = @ \o vertex,
                                !.exportVertices = Append(@, vertex),
                                !.vertexMap = @ @@ (key :> newIndex)]]

\* addUniqueVertex taking the new index from the flat buffer's length
addUniqueVertex_bufferLength(vertex, o) ==
    LET key == VertexKey(vertex)
        newIndex == Len(o.bufferVertices)
    IN  IF key \in DOMAIN o.vertexMap
        THEN [index |-> o.vertexMap[key], out |-> o]
        ELSE [index |-> newIndex,
              out |-> [o EXCEPT !.bufferVertices = @ \o vertex,
                                !.exportVertices = Append(@, vertex),
                                !.vertexMap = @ @@ (key :> newIndex)]]

\* addUniqueVertex: the returned index and the arrays after the call
addUniqueVertex(vertex, o) ==
    LET key == VertexKey(vertex)
        newIndex == Len(o.exportVertices)
    IN  IF key \in DOMAIN o.vertexMap
        THEN [index |-> o.vertexMap[key], out |-> o]
        ELSE [index |-> newIndex,
              out |-> [o EXCEPT !.bufferVertices = @ \o vertex,
                                !.exportVertices = Append(@, vertex),
                                !.vertexMap = @ @@ (key :> newIndex)]]

\* the Face pushed with the file format's 1-based indices
EmitFaces_oneBased(facesData, o) ==
    [o EXCEPT
       !.bufferIndices = @ \o [n \in 1..(3 * Len(facesData)) |->
                                  facesData[(n + 2) \div 3][((n - 1) % 3) + 1]],
       !.exportFaces = @ \o [n \in 1..Len(facesData) |->
                                  [v1 |-> facesData[n][1] + 1, v2 |-> facesData[n][2] + 1,
                                   v3 |-> facesData[n][3] + 1]]]

\* facesData.forEach: push the three indices and the Face of every row
EmitFaces(facesData, o) ==
    [o EXCEPT
       !.bufferIndices = @ \o [n \in 1..(3 * Len(facesData)) |->
                                  facesData[(n + 2) \div 3][((n - 1) % 3) + 1]],
       !.exportFaces = @ \o [n \in 1..Len(facesData) |->
                                  [v1 |-> facesData[n][1], v2 |-> facesData[n][2],
                                   v3 |-> facesData[n][3]]]]

\* a facesData literal: the rows of a corner table with idx applied
FacesOf(table, idx) ==
    [k \in 1..Len(table) |-> <<idx[table[k][1]], idx[table[k][2]], idx[table[k][3]]>>]

\* the base case taken one level early
IsLeaf_early(level) == level <= 1

\* "if (level === 0)"
IsLeaf(level) == level = 0

(***************************************************************************)
(* subdivideTetrahedron                                                    *)
(***************************************************************************)
\* the corner numbers of the four faces: corner n is the source's p<n>, idx<n>
TetFaceTable == << <<1, 3, 2>>, <<1, 2, 4>>, <<1, 4, 3>>, <<2, 3, 4>> >>

TetFacesData(idx) == FacesOf(TetFaceTable, idx)

TetChildren(p) ==
    LET m12 == Midpoint(p[1], p[2])
        m13 == Midpoint(p[1], p[3])
        m14 == Midpoint(p[1], p[4])
        m23 == Midpoint(p[2], p[3])
        m24 == Midpoint(p[2], p[4])
        m34 == Midpoint(p[3], p[4])
    IN  << <<p[1], m12, m13, m14>>, <<m12, p[2], m23, m24>>,
           <<m13, m23, p[3], m34>>, <<m14, m24, m34, p[4]>> >>

TetInitial(size) ==
    << Vec(size, size, size), Vec(size, -size, -size),
       Vec(-size, size, -size), Vec(-size, -size, size) >>

(***************************************************************************)
(* subdivideCube                                                           *)
(***************************************************************************)
CubeCorners(center, sideLength) ==
    LET halfSide == sideLength \div 2
        x == center[1]
        y == center[2]
        z == center[3]
    IN  << Vec(x - halfSide, y - halfSide, z + halfSide),
           Vec(x + halfSide, y - halfSide, z + halfSide),
           Vec(x + halfSide, y + halfSide, z + halfSide),
           Vec(x - halfSide, y + halfSide, z + halfSide),
           Vec(x - halfSide, y - halfSide, z - halfSide),
           Vec(x + halfSide, y - halfSide, z - halfSide),
           Vec(x + halfSide, y + halfSide, z - halfSide),
           Vec(x - halfSide, y + halfSide, z - halfSide) >>

\* the second Back triangle wound the other way
CubeFaceTable_flipped ==
    << <<1, 2, 3>>, <<1, 3, 4>>,
       <<5, 8, 7>>, <<5, 6, 7>>,
       <<4, 3, 7>>, <<4, 7, 8>>,
       <<1, 5, 6>>, <<1, 6, 2>>,
       <<1, 4, 8>>, <<1, 8, 5>>,
       <<2, 6, 7>>, <<2, 7, 3>> >>

\* the corner numbers of facesData, 1-based: corner n + 1 is the source's
\* vertices[n], idx[n]
CubeFaceTable ==
    << <<1, 2, 3>>, <<1, 3, 4>>,
       <<5, 8, 7>>, <<5, 7, 6>>,
       <<4, 3, 7>>, <<4, 7, 8>>,
       <<1, 5, 6>>, <<1, 6, 2>>,
       <<1, 4, 8>>, <<1, 8, 5>>,
       <<2, 6, 7>>, <<2, 7, 3>> >>

CubeFacesData(idx) == FacesOf(CubeFaceTable, idx)

\* the (i, j, k) of the n-th iteration (n = 0..26) of the three nested loops
GridIndex(n) == <<(n \div 9) - 1, ((n \div 3) % 3) - 1, (n % 3) - 1>>

zeroCount(g) ==
    (IF g[1] = 0 THEN 1 ELSE 0) + (IF g[2] = 0 THEN 1 ELSE 0)
        + (IF g[3] = 0 THEN 1 ELSE 0)

\* "zeroCount <= 2": only the body center is left out
CubeRecurses_le(g) == zeroCount(g) <= 2

\* "zeroCount < 1": only the eight corner cells recurse
CubeRecurses_cornersOnly(g) == zeroCount(g) < 1

CubeRecurses(g) == zeroCount(g) < 2

\* the offset taken from the side length of the parent
CubeChild_parentSide(center, sideLength, g) ==
    LET newSideLength == sideLength \div 3
        offset == Vec(g[1] * sideLength, g[2] * sideLength, g[3] * sideLength)
    IN  [center |-> VAdd(center, offset), sideLength |-> newSideLength]

CubeChild(center, sideLength, g) ==
    LET newSideLength == sideLength \div 3
        offset == Vec(g[1] * newSideLength, g[2] * newSideLength, g[3] * newSideLength)
    IN  [center |-> VAdd(center, offset), sideLength |-> newSideLength]

(***************************************************************************)
(* subdivideOctahedron                                                     *)
(***************************************************************************)
\* the last vertex with the sign of the one before it
OctCorners_sameSign(center, scale) ==
    << Vec(center[1], center[2] + scale, center[3]),
       Vec(center[1], center[2] - scale, center[3]),
       Vec(center[1] + scale, center[2], center[3]),
       Vec(center[1] - scale, center[2], center[3]),
       Vec(center[1], center[2], center[3] + scale),
       Vec(center[1], center[2], center[3] + scale) >>

OctCorners(center, scale) ==
    << Vec(center[1], center[2] + scale, center[3]),
       Vec(center[1], center[2] - scale, center[3]),
       Vec(center[1] + scale, center[2], center[3]),
       Vec(center[1] - scale, center[2], center[3]),
       Vec(center[1], center[2], center[3] + scale),
       Vec(center[1], center[2], center[3] - scale) >>

\* the bottom pyramid written in the order of the top one
OctFaceTable_bottomAsTop ==
    << <<1, 5, 3>>, <<1, 3, 6>>, <<1, 6, 4>>, <<1, 4, 5>>,
       <<2, 5, 3>>, <<2, 3, 6>>, <<2, 6, 4>>, <<2, 4, 5>> >>

OctFaceTable ==
    << <<1, 5, 3>>, <<1, 3, 6>>, <<1, 6, 4>>, <<1, 4, 5>>,
       <<2, 3, 5>>, <<2, 6, 3>>, <<2, 4, 6>>, <<2, 5, 4>> >>

OctFacesData(idx) == FacesOf(OctFaceTable, idx)

\* the earlier variant: the parent's center added a second time
OctChild_reoffset(center, scale, n) ==
    LET newScale == scale \div 2
    IN  [center |-> VAdd(OctCorners(center, newScale)[n], center), scale |-> newScale]

OctChild(center, scale, n) ==
    LET newScale == scale \div 2
    IN  [center |-> OctCorners(center, newScale)[n], scale |-> newScale]

(***************************************************************************)
(* Call-stack frames.  fn: the function; a: its geometric arguments;       *)
(* level; idx: the indices returned by addUniqueVertex so far; i: the loop *)
(* counter of the recursive part; calls: the arguments of the recursive    *)
(* calls made so far; emitted: the leaf's faces have been pushed.          *)
(***************************************************************************)
Frame(fn, a, level) ==
    [fn |-> fn, a |-> a, level |-> level, idx |-> <<>>, i |-> 0,
     calls |-> <<>>, emitted |-> FALSE]

Top == stack[Len(stack)]

Out == heap[cur]

SetTop(f) == [stack EXCEPT ![Len(stack)] = f]

\* leafCalls: the calls of the running generation that took the base case;
\* objText: the lines of the exported file, NoText before an export
NoText == <<>>

\* first: the output the caller still holds of its first call (ref: where its
\* arrays live; req: its arguments; other: a call with other arguments was
\* made since)
NoResult == [ref |-> 0]

\* a vertexMap that outlives the call (a module-level map)
NewArrays_keptMap == [EmptyOutput EXCEPT !.vertexMap = heap[cur].vertexMap]

\* the four empty arrays and the empty Map of the entry of a generator
NewArrays == EmptyOutput

\* "const bufferVertices: number[] = []" and the four other allocations of a
\* generator call: storage no live reference points to
FreshSlot == IF first = NoResult THEN 1 ELSE 3 - first.ref

(***************************************************************************)
(* The App component (App.tsx) and its control panel (ControlsPanel.tsx).  *)
(* A size is in tenths, the step of the size slider.  The output of a      *)
(* generator call is carried as the request it was generated from: a call  *)
(* returns the same arrays for the same request.  A step is one event      *)
(* handler with the re-render and the effects it causes, one timer         *)
(* callback, one animation frame, or one part of the continuation of       *)
(* generateFractalLogic after its await.                                   *)
(***************************************************************************)
DEFAULT_FRACTAL_PARAMS ==
    [type |-> "sierpinskiTetrahedron", level |-> 2, size |-> 51]

MAX_LEVELS == [t \in Kinds |-> 10]

\* "fractalParams.type === FractalType.MengerSponge ? 0 : -1"
currentMinLevel_minusOne(type) == IF type = "mengerSponge" THEN 0 ELSE -1

currentMinLevel(type) == IF type = "mengerSponge" THEN 0 ELSE 0

currentMaxLevel(type) == MAX_LEVELS[type]

\* the size slider: min = 1, max = 10, in tenths
SizeMin == 10
SizeMax == 100

\* the animate closure is created by the mount effect, in the scope of the
\* first render: it reads the three state values of that render
animateScope ==
    [isContinuousAutoRotateOn |-> FALSE, isAutoRotatingByInactivity |-> FALSE,
     isUserInteracting |-> FALSE]

\* the exportVertices / exportFaces arrays generated for a request; <<>> is
\* the empty array
PointsFor(p) == <<[pointsOf |-> p]>>

FacesFor(p) == <<[facesOf |-> p]>>

\* a generateFractalLogic call: the fractalParams and isPreviewDisabled of the
\* render that created the callback.  beforeWait: its 20 ms timer was set
\* before the pending inactivity timer was, and so fires before it
Closure(params, preview) ==
    [params |-> params, isPreviewDisabled |-> preview, beforeWait |-> FALSE]

\* the inactivity timer is set: the timers already pending are older
SetBefore(calls) == [n \in 1..Len(calls) |-> [calls[n] EXCEPT !.beforeWait = TRUE]]

NoRun == [params |-> "none"]

NoOutput == [status |-> "none"]

Threw == [status |-> "threw"]

GenerationOutput(p) ==
    [status |-> "returned", buffers |-> p,
     exportVertices |-> PointsFor(p), exportFaces |-> FacesFor(p)]

NoExport == [points |-> "none"]

\* THREE.Mesh objects: a slot holds a mesh that was created, disposed or not
MeshIds == 1..(MaxEvents + 2)

Unallocated == [allocated |-> FALSE]

NewMesh(p) == [allocated |-> TRUE, geometry |-> p, turns |-> 0, disposed |-> FALSE]

\* "new THREE.Mesh(...)": an object nothing refers to
FreshMesh == CHOOSE m \in MeshIds : m \notin scene /\ m # fractalMeshRef

\* no traversal in double arithmetic is followed
NoAxis == [level |-> -1]

\* "debounce(func, d)" has returned: no timer was set yet
debounce(d) ==
    /\ delay = d
    /\ timeout = 0
    /\ timers = {}
    /\ now = 0
    /\ callsMade = <<>>
    /\ invocations = <<>>

\* the state after the first render and its effects: the animation loop runs,
\* the first generateFractalLogic call is suspended at its await, the
\* inactivity timer is pending
Mounted ==
    /\ fractalParams = DEFAULT_FRACTAL_PARAMS
    /\ isPreviewDisabled = FALSE
    /\ isLoading = TRUE
    /\ isContinuousAutoRotateOn = FALSE
    /\ isAutoRotatingByInactivity = FALSE
    /\ isUserInteracting = FALSE
    /\ inactivityTimeoutIdRef = "pending"
    /\ animationFrameIdRef = 0
    /\ suspended = SetBefore(<<Closure(DEFAULT_FRACTAL_PARAMS, FALSE)>>)
    /\ resumed = NoRun
    /\ output = NoOutput
    /\ scene = {}
    /\ meshes = [m \in MeshIds |-> Unallocated]
    /\ fractalMeshRef = 0
    /\ generatedVerticesRef = <<>>
    /\ generatedFacesRef = <<>>
    /\ lastExport = NoExport
    /\ events = 0
    /\ debounce(500)

TypeOK ==
    /\ pc \in {"idle", "running", "done"}
    /\ cur \in 1..2
    /\ budget \in 0..MaxCalls

Init ==
    /\ pc = "idle"
    /\ req = [kind |-> "sierpinskiTetrahedron", level |-> 0, size |-> Unit]
    /\ stack = <<>>
    /\ cur = 1
    /\ heap = [s \in 1..2 |-> EmptyOutput]
    /\ first = NoResult
    /\ inputs = Requests
    /\ budget = 1
    /\ leafCalls = 0
    /\ objText = NoText
    /\ Mounted
    /\ axis = NoAxis

\* the entry of a generator: fresh arrays and map, then the first call
Enter(r, frame) ==
    /\ pc \in {"idle", "done"}
    /\ r \in inputs
    /\ budget > 0
    /\ budget' = budget - 1
    /\ pc' = "running"
    /\ req' = r
    /\ cur' = FreshSlot
    /\ heap' = [heap EXCEPT ![FreshSlot] = NewArrays]
    /\ stack' = <<frame>>
    /\ first' = IF first # NoResult /\ r # first.req
                THEN [first EXCEPT !.other = TRUE] ELSE first
    /\ leafCalls' = IF IsLeaf(frame.level) THEN 1 ELSE 0
    /\ UNCHANGED <<inputs, objText>>
    /\ UNCHANGED <<appVars, libVars>>

generateSierpinskiTetrahedron ==
    \E r \in inputs :
        /\ r.kind = "sierpinskiTetrahedron"
        /\ Enter(r, Frame("subdivideTetrahedron", TetInitial(r.size), r.level))

generateMengerSponge ==
    \E r \in inputs :
        /\ r.kind = "mengerSponge"
        /\ Enter(r, Frame("subdivideCube",
                          [center |-> Vec(0, 0, 0), sideLength |-> r.size], r.level))

generateSierpinskiOctahedron ==
    \E r \in inputs :
        /\ r.kind = "sierpinskiOctahedron"
        /\ Enter(r, Frame("subdivideOctahedron",
                          [center |-> Vec(0, 0, 0), scale |-> r.size], r.level))

\* one addUniqueVertex call of a leaf
Weld(fn, corners) ==
    /\ pc = "running"
    /\ Top.fn = fn
    /\ IsLeaf(Top.level)
    /\ Len(Top.idx) < Len(corners)
    /\ LET res == addUniqueVertex(corners[Len(Top.idx) + 1], Out)
       IN  /\ heap' = [heap EXCEPT ![cur] = res.out]
           /\ stack' = SetTop([Top EXCEPT !.idx = Append(@, res.index)])
    /\ UNCHANGED <<pc, req, cur, first, inputs, budget, leafCalls, objText>>
    /\ UNCHANGED <<appVars, libVars>>

\* the face emission of a leaf
Emit(fn, nCorners, facesData) ==
    /\ pc = "running"
    /\ Top.fn = fn
    /\ IsLeaf(Top.level)
    /\ Len(Top.idx) = nCorners
    /\ ~Top.emitted
    /\ heap' = [heap EXCEPT ![cur] = EmitFaces(facesData, Out)]
    /\ stack' = SetTop([Top EXCEPT !.emitted = TRUE])
    /\ UNCHANGED <<pc, req, cur, first, inputs, budget, leafCalls, objText>>
    /\ UNCHANGED <<appVars, libVars>>

\* one recursive call: the caller's loop counter advances, the callee's frame
\* is pushed
Call(fn, n, child) ==
    /\ pc = "running"
    /\ Top.fn = fn
    /\ ~IsLeaf(Top.level)
    /\ Top.i < n
    /\ stack' = Append(SetTop([Top EXCEPT !.i = @ + 1,
                                          !.calls = Append(@, child)]),
                       Frame(fn, child.a, child.level))
    /\ leafCalls' = IF IsLeaf(child.level) THEN leafCalls + 1 ELSE leafCalls
    /\ UNCHANGED <<pc, req, cur, heap, first, inputs, budget, objText>>
    /\ UNCHANGED <<appVars, libVars>>

\* a grid cell with two or three zero components: the loop goes on
Skip(fn, n) ==
    /\ pc = "running"
    /\ Top.fn = fn
    /\ ~IsLeaf(Top.level)
    /\ Top.i < n
    /\ stack' = SetTop([Top EXCEPT !.i = @ + 1])
    /\ UNCHANGED <<pc, req, cur, heap, first, inputs, budget, leafCalls, objText>>
    /\ UNCHANGED <<appVars, libVars>>

TetWeld == Weld("subdivideTetrahedron", Top.a)

TetEmit == Emit("subdivideTetrahedron", 4, TetFacesData(Top.idx))

TetCall ==
    Call("subdivideTetrahedron", 4,
         [a |-> TetChildren(Top.a)[Top.i + 1], level |-> Top.level - 1])

CubeWeld == Weld("subdivideCube", CubeCorners(Top.a.center, Top.a.sideLength))

CubeEmit == Emit("subdivideCube", 8, CubeFacesData(Top.idx))

CubeCall ==
    /\ pc = "running"
    /\ Top.fn = "subdivideCube"
    /\ Top.i < 27
    /\ CubeRecurses(GridIndex(Top.i))
    /\ Call("subdivideCube", 27,
            [a |-> CubeChild(Top.a.center, Top.a.sideLength, GridIndex(Top.i)),
             level |-> Top.level - 1])

CubeSkip ==
    /\ pc = "running"
    /\ Top.fn = "subdivideCube"
    /\ Top.i < 27
    /\ ~CubeRecurses(GridIndex(Top.i))
    /\ Skip("subdivideCube", 27)

OctWeld == Weld("subdivideOctahedron", OctCorners(Top.a.center, Top.a.scale))

OctEmit == Emit("subdivideOctahedron", 6, OctFacesData(Top.idx))

OctCall ==
    Call("subdivideOctahedron", 6,
         [a |-> OctChild(Top.a.center, Top.a.scale, Top.i + 1),
          level |-> Top.level - 1])

LoopLength(fn) ==
    CASE fn = "subdivideTetrahedron" -> 4
      [] fn = "subdivideCube" -> 27
      [] fn = "subdivideOctahedron" -> 6

Finished(f) ==
    \/ IsLeaf(f.level) /\ f.emitted
    \/ ~IsLeaf(f.level) /\ f.i = LoopLength(f.fn)

\* return of a recursive call to its caller
Return ==
    /\ pc = "running"
    /\ Len(stack) > 1
    /\ Finished(Top)
    /\ stack' = SubSeq(stack, 1, Len(stack) - 1)
    /\ UNCHANGED <<pc, req, cur, heap, first, inputs, budget, leafCalls, objText>>
    /\ UNCHANGED <<appVars, libVars>>

\* return of the entry call: the generator returns its four arrays
GeneratorReturn ==
    /\ pc = "running"
    /\ Len(stack) = 1
    /\ Finished(Top)
    /\ stack' = <<>>
    /\ pc' = "done"
    /\ first' = IF first = NoResult
                THEN [ref |-> cur, req |-> req, other |-> FALSE] ELSE first
    /\ UNCHANGED <<req, cur, heap, inputs, budget, leafCalls, objText>>
    /\ UNCHANGED <<appVars, libVars>>

Next ==
    \/ generateSierpinskiTetrahedron
    \/ TetWeld
    \/ TetEmit
    \/ TetCall
    \/ generateMengerSponge
    \/ CubeWeld
    \/ CubeEmit
    \/ CubeCall
    \/ CubeSkip
    \/ generateSierpinskiOctahedron
    \/ OctWeld
    \/ OctEmit
    \/ OctCall
    \/ Return
    \/ GeneratorReturn

\* one generator call on any input of Requests
Spec == Init /\ [][Next]_vars

\* one generator call on an input of DeepRequests
InitDeep ==
    /\ pc = "idle"
    /\ req = [kind |-> "sierpinskiTetrahedron", level |-> 0, size |-> Unit]
    /\ stack = <<>>
    /\ cur = 1
    /\ heap = [s \in 1..2 |-> EmptyOutput]
    /\ first = NoResult
    /\ inputs = DeepRequests
    /\ budget = 1
    /\ leafCalls = 0
    /\ objText = NoText
    /\ Mounted
    /\ axis = NoAxis

SpecDeep == InitDeep /\ [][Next]_vars

\* a caller that makes up to MaxCalls calls and keeps the first result
InitCalls ==
    /\ pc = "idle"
    /\ req = [kind |-> "sierpinskiTetrahedron", level |-> 0, size |-> Unit]
    /\ stack = <<>>
    /\ cur = 1
    /\ heap = [s \in 1..2 |-> EmptyOutput]
    /\ first = NoResult
    /\ inputs = CallRequests
    /\ budget = MaxCalls
    /\ leafCalls = 0
    /\ objText = NoText
    /\ Mounted
    /\ axis = NoAxis

SpecCalls == InitCalls /\ [][Next]_vars

\* the traversal is straight-line single-threaded code: a step that can be
\* taken is taken
Step ==
    \/ TetWeld \/ TetEmit \/ TetCall
    \/ CubeWeld \/ CubeEmit \/ CubeCall \/ CubeSkip
    \/ OctWeld \/ OctEmit \/ OctCall
    \/ Return \/ GeneratorReturn

FairSpec == Spec /\ WF_vars(Step)
(***************************************************************************)
(* exportToObjFile (utils/objExporter), after section 4.6 and 6 of the     *)
(* specification: a header line, a "v" line per point, an "f" line per     *)
(* face.  A line is the tuple of its tokens.  A number is written in full  *)
(* precision: its sign, its integer part and the digits of its fraction,   *)
(* which for a multiple of 1/Unit are finitely many.                       *)
(***************************************************************************)
RECURSIVE FractionDigits(_)
FractionDigits(r) ==
    IF r = 0 THEN <<>>
    ELSE <<(r * 10) \div Unit>> \o FractionDigits((r * 10) % Unit)

NumberText(x) ==
    [negative |-> x < 0, integer |-> Abs(x) \div Unit,
     fraction |-> FractionDigits(Abs(x) % Unit)]

HeaderLine(kind, level, size) == <<"#", kind, level, NumberText(size)>>

VertexLine(v) == <<"v", NumberText(v[1]), NumberText(v[2]), NumberText(v[3])>>

\* the face written with its 0-based indices
FaceLine_zeroBased(f) == <<"f", f.v1, f.v2, f.v3>>

FaceLine(f) == <<"f", f.v1 + 1, f.v2 + 1, f.v3 + 1>>

exportToObjFile(kind, level, size, points, faces) ==
    <<HeaderLine(kind, level, size)>>
        \o [i \in 1..Len(points) |-> VertexLine(points[i])]
        \o [j \in 1..Len(faces) |-> FaceLine(faces[j])]

\* the caller of a generator exports what the call returned: the
\* exportVertices and exportFaces it stored, with the request in the header
ExportReturned ==
    /\ pc = "done"
    /\ objText = NoText
    /\ Len(Out.exportVertices) > 0
    /\ Len(Out.exportFaces) > 0
    /\ objText' = exportToObjFile(req.kind, req.level, req.size,
                                  Out.exportVertices, Out.exportFaces)
    /\ UNCHANGED <<pc, req, stack, cur, heap, first, inputs, budget, leafCalls>>
    /\ UNCHANGED <<appVars, libVars>>

NextExport == Next \/ ExportReturned

\* one generator call on any input of Requests, and the export of its output
SpecExport == Init /\ [][NextExport]_vars

(***************************************************************************)
(* App: event handlers, timer callbacks, the animation loop and            *)
(* generateFractalLogic.  A callback runs to completion: while the         *)
(* continuation of a generateFractalLogic call is executing (resumed is    *)
(* not NoRun) nothing else runs.                                           *)
(***************************************************************************)
panelVars == <<fractalParams, isPreviewDisabled>>

rotateVars ==
    <<isContinuousAutoRotateOn, isAutoRotatingByInactivity, isUserInteracting,
      inactivityTimeoutIdRef>>

runVars == <<suspended, resumed, output>>

sceneVars == <<scene, meshes, fractalMeshRef>>

dataVars == <<generatedVerticesRef, generatedFacesRef>>

Min(a, b) == IF a < b THEN a ELSE b

Idle == resumed = NoRun

\* a user event can be handled
UserEvent ==
    /\ Idle
    /\ events < MaxEvents
    /\ events' = events + 1

\* generateFractalLogic up to its await: setIsLoading(true) and the 20 ms
\* timer that will resume the call
generateFractalLogic(closure) ==
    /\ isLoading' = TRUE
    /\ suspended' = Append(suspended, closure)
    /\ UNCHANGED <<resumed, output>>

\* a render in which type, level, size, color or isPreviewDisabled changed:
\* useCallback returns a new generateFractalLogic and the effect calls it
ParamsChanged(params, preview) ==
    /\ fractalParams' = params
    /\ isPreviewDisabled' = preview
    /\ generateFractalLogic(Closure(params, preview))
    /\ UNCHANGED <<rotateVars, sceneVars, dataVars, animationFrameIdRef, lastExport>>
    /\ UNCHANGED <<genVars, libVars>>

handleFractalTypeChange ==
    /\ UserEvent
    /\ \E newType \in Kinds \ {fractalParams.type} :
          LET level == fractalParams.level
              bounded == IF level > MAX_LEVELS[newType]
                         THEN Min(2, MAX_LEVELS[newType]) ELSE level
              newLevel == IF newType = "mengerSponge" /\ bounded < 0 THEN 0 ELSE bounded
          IN  ParamsChanged([fractalParams EXCEPT !.type = newType, !.level = newLevel],
                            isPreviewDisabled)

\* the level slider, moved to one of its ends
handleLevelChange ==
    /\ UserEvent
    /\ \E val \in {currentMinLevel(fractalParams.type),
                   currentMaxLevel(fractalParams.type)} \ {fractalParams.level} :
          ParamsChanged([fractalParams EXCEPT !.level = val], isPreviewDisabled)

\* the size slider, moved to one of its ends
handleSizeChange ==
    /\ UserEvent
    /\ \E val \in {SizeMin, SizeMax} \ {fractalParams.size} :
          ParamsChanged([fractalParams EXCEPT !.size = val], isPreviewDisabled)

\* the color picker: another color, the same type, level and size
handleColorChange ==
    /\ UserEvent
    /\ ParamsChanged(fractalParams, isPreviewDisabled)

togglePreview ==
    /\ UserEvent
    /\ ParamsChanged(fractalParams, ~isPreviewDisabled)

\* the Generate button: disabled while isLoading
onGenerate ==
    /\ UserEvent
    /\ ~isLoading
    /\ generateFractalLogic(Closure(fractalParams, isPreviewDisabled))
    /\ UNCHANGED <<panelVars, rotateVars, sceneVars, dataVars, animationFrameIdRef,
                   lastExport>>
    /\ UNCHANGED <<genVars, libVars>>

\* the Export button: enabled when the two arrays are not empty and isLoading
\* is false
handleExportObj ==
    /\ UserEvent
    /\ ~isLoading
    /\ Len(generatedVerticesRef) > 0
    /\ Len(generatedFacesRef) > 0
    /\ lastExport' = [type |-> fractalParams.type, level |-> fractalParams.level,
                      size |-> fractalParams.size,
                      points |-> generatedVerticesRef, faces |-> generatedFacesRef]
    /\ UNCHANGED <<panelVars, rotateVars, runVars, sceneVars, dataVars, isLoading,
                   animationFrameIdRef>>
    /\ UNCHANGED <<genVars, libVars>>

\* the inactivity effect after a render in which isUserInteracting or
\* isContinuousAutoRotateOn changed: its cleanup, then its body
InactivityEffect(interacting, continuous, rotating) ==
    /\ isUserInteracting' = interacting
    /\ isContinuousAutoRotateOn' = continuous
    /\ IF interacting
       THEN /\ isAutoRotatingByInactivity' = FALSE
            /\ inactivityTimeoutIdRef' = "spent"
            /\ UNCHANGED suspended
       ELSE IF ~continuous
       THEN /\ isAutoRotatingByInactivity' = rotating
            /\ inactivityTimeoutIdRef' = "pending"
            /\ suspended' = SetBefore(suspended)
       ELSE /\ isAutoRotatingByInactivity' = FALSE
            /\ inactivityTimeoutIdRef' = "spent"
            /\ UNCHANGED suspended
    /\ UNCHANGED <<resumed, output>>
    /\ UNCHANGED <<panelVars, sceneVars, dataVars, isLoading,
                   animationFrameIdRef, lastExport>>
    /\ UNCHANGED <<genVars, libVars>>

handleToggleAutoRotate ==
    /\ UserEvent
    /\ InactivityEffect(isUserInteracting, ~isContinuousAutoRotateOn,
                        IF ~isContinuousAutoRotateOn THEN FALSE
                        ELSE isAutoRotatingByInactivity)

\* OrbitControls "start"
handleInteractionStart ==
    /\ UserEvent
    /\ ~isUserInteracting
    /\ InactivityEffect(TRUE, isContinuousAutoRotateOn, isAutoRotatingByInactivity)

\* OrbitControls "end"
handleInteractionEnd ==
    /\ UserEvent
    /\ isUserInteracting
    /\ InactivityEffect(FALSE, isContinuousAutoRotateOn, isAutoRotatingByInactivity)

\* the callback of the inactivity timer, AUTO_ROTATE_DELAY after it was set
InactivityTimeout ==
    /\ Idle
    /\ inactivityTimeoutIdRef = "pending"
    /\ \A n \in 1..Len(suspended) : ~suspended[n].beforeWait
    /\ inactivityTimeoutIdRef' = "spent"
    /\ isAutoRotatingByInactivity' = TRUE
    /\ UNCHANGED <<isContinuousAutoRotateOn, isUserInteracting>>
    /\ UNCHANGED <<panelVars, runVars, sceneVars, dataVars, isLoading,
                   animationFrameIdRef, lastExport, events>>
    /\ UNCHANGED <<genVars, libVars>>

ShouldRotate(scope) ==
    scope.isContinuousAutoRotateOn
        \/ (scope.isAutoRotatingByInactivity /\ ~scope.isUserInteracting)

\* one animation frame; turns counts the increments of rotation.y by
\* AUTO_ROTATE_SPEED (and of rotation.x by 0.3 times that)
animate ==
    /\ Idle
    /\ animationFrameIdRef < MaxFrames
    /\ animationFrameIdRef' = animationFrameIdRef + 1
    /\ IF fractalMeshRef # 0 /\ scene # {} /\ ShouldRotate(animateScope)
       THEN meshes' = [meshes EXCEPT ![fractalMeshRef].turns = @ + 1]
       ELSE meshes' = meshes
    /\ UNCHANGED <<scene, fractalMeshRef>>
    /\ UNCHANGED <<panelVars, rotateVars, runVars, dataVars, isLoading, lastExport,
                   events>>
    /\ UNCHANGED <<genVars, libVars>>

\* the call without "sceneRef.current.remove(fractalMeshRef.current)"
Resume_leavesInScene ==
    /\ Idle
    /\ suspended # <<>>
    /\ resumed' = Head(suspended)
    /\ suspended' = Tail(suspended)
    /\ output' = NoOutput
    /\ IF fractalMeshRef # 0
       THEN /\ scene' = scene
            /\ meshes' = [meshes EXCEPT ![fractalMeshRef].disposed = TRUE]
            /\ fractalMeshRef' = 0
       ELSE UNCHANGED sceneVars
    /\ generatedVerticesRef' = <<>>
    /\ generatedFacesRef' = <<>>
    /\ UNCHANGED <<panelVars, rotateVars, isLoading, animationFrameIdRef, lastExport,
                   events>>
    /\ UNCHANGED <<genVars, libVars>>

\* the 20 ms timer of the oldest suspended call fires: the call removes and
\* disposes the mesh and empties the two arrays
Resume ==
    /\ Idle
    /\ suspended # <<>>
    /\ resumed' = Head(suspended)
    /\ suspended' = Tail(suspended)
    /\ output' = NoOutput
    /\ IF fractalMeshRef # 0
       THEN /\ scene' = scene \ {fractalMeshRef}
            /\ meshes' = [meshes EXCEPT ![fractalMeshRef].disposed = TRUE]
            /\ fractalMeshRef' = 0
       ELSE UNCHANGED sceneVars
    /\ generatedVerticesRef' = <<>>
    /\ generatedFacesRef' = <<>>
    /\ UNCHANGED <<panelVars, rotateVars, isLoading, animationFrameIdRef, lastExport,
                   events>>
    /\ UNCHANGED <<genVars, libVars>>

\* the generator call of the resumed run: the function and its arguments
GeneratorCall(params) ==
    [fn |-> CASE params.type = "sierpinskiTetrahedron" -> "generateSierpinskiTetrahedron"
              [] params.type = "mengerSponge" -> "generateMengerSponge"
              [] OTHER -> "generateSierpinskiOctahedron",
     level |-> params.level, size |-> params.size]

CallGenerator(result) ==
    /\ resumed # NoRun
    /\ output = NoOutput
    /\ output' = result
    /\ UNCHANGED <<suspended, resumed>>
    /\ UNCHANGED <<panelVars, rotateVars, sceneVars, dataVars, isLoading,
                   animationFrameIdRef, lastExport, events>>
    /\ UNCHANGED <<genVars, libVars>>

GeneratorReturns == CallGenerator(GenerationOutput(resumed.params))

\* the call runs out of memory or of array length
GeneratorThrows == CallGenerator(Threw)

\* the rest of the try block, then "finally"
UseOutput ==
    /\ resumed # NoRun
    /\ output.status = "returned"
    /\ generatedVerticesRef' = output.exportVertices
    /\ generatedFacesRef' = output.exportFaces
    /\ IF Len(output.exportVertices) > 0 /\ ~resumed.isPreviewDisabled
       THEN /\ meshes' = [meshes EXCEPT ![FreshMesh] = NewMesh(output.buffers)]
            /\ scene' = scene \cup {FreshMesh}
            /\ fractalMeshRef' = FreshMesh
       ELSE UNCHANGED sceneVars
    /\ isLoading' = FALSE
    /\ resumed' = NoRun
    /\ output' = NoOutput
    /\ UNCHANGED suspended
    /\ UNCHANGED <<panelVars, rotateVars, animationFrameIdRef, lastExport, events>>
    /\ UNCHANGED <<genVars, libVars>>

\* "catch", then "finally"
CatchError ==
    /\ resumed # NoRun
    /\ output = Threw
    /\ isLoading' = FALSE
    /\ resumed' = NoRun
    /\ output' = NoOutput
    /\ UNCHANGED suspended
    /\ UNCHANGED <<panelVars, rotateVars, sceneVars, dataVars, animationFrameIdRef,
                   lastExport, events>>
    /\ UNCHANGED <<genVars, libVars>>

NextApp ==
    \/ handleFractalTypeChange
    \/ handleLevelChange
    \/ handleSizeChange
    \/ handleColorChange
    \/ togglePreview
    \/ onGenerate
    \/ handleExportObj
    \/ handleToggleAutoRotate
    \/ handleInteractionStart
    \/ handleInteractionEnd
    \/ InactivityTimeout
    \/ animate
    \/ Resume
    \/ GeneratorReturns
    \/ GeneratorThrows
    \/ UseOutput
    \/ CatchError

\* the mounted App; no generator call of the first part is in progress
InitApp ==
    /\ pc = "idle"
    /\ req = [kind |-> "sierpinskiTetrahedron", level |-> 0, size |-> Unit]
    /\ stack = <<>>
    /\ cur = 1
    /\ heap = [s \in 1..2 |-> EmptyOutput]
    /\ first = NoResult
    /\ inputs = {}
    /\ budget = 0
    /\ leafCalls = 0
    /\ objText = NoText
    /\ Mounted
    /\ axis = NoAxis

SpecApp == InitApp /\ [][NextApp]_vars

(***************************************************************************)
(* debounce (utils/helpers).  The clock counts time units.  A timer set    *)
(* with setTimeout(f, delay) is pending until it is cleared or its         *)
(* callback runs; the callback runs as a task of its own, at some moment   *)
(* not before the delay has elapsed: a call of the debounced function made *)
(* by a task that is running or was queued earlier comes first.  A timer   *)
(* id is the number of the call that set it.                               *)
(***************************************************************************)
Delays == {1, 2}

Contexts == {"c1", "c2"}

Arguments == {<<1>>, <<2>>}

\* the returned function without "clearTimeout(timeout)"
debounced_noClear(context, args) ==
    /\ Len(callsMade) < MaxDebounced
    /\ LET id == Len(callsMade) + 1
       IN  /\ timers' = timers \cup
                  {[id |-> id, context |-> context, args |-> args, due |-> now + delay]}
           /\ timeout' = id
    /\ callsMade' = Append(callsMade, [context |-> context, args |-> args, at |-> now])
    /\ UNCHANGED <<delay, now, invocations>>
    /\ UNCHANGED <<genVars, appVars, axis>>

\* the returned function, called with this = context
debounced(context, args) ==
    /\ Len(callsMade) < MaxDebounced
    /\ LET id == Len(callsMade) + 1
       IN  /\ timers' = {t \in timers : t.id # timeout} \cup
                  {[id |-> id, context |-> context, args |-> args, due |-> now + delay]}
           /\ timeout' = id
    /\ callsMade' = Append(callsMade, [context |-> context, args |-> args, at |-> now])
    /\ UNCHANGED <<delay, now, invocations>>
    /\ UNCHANGED <<genVars, appVars, axis>>

CallDebounced == \E context \in Contexts, args \in Arguments : debounced(context, args)

\* the callback of the oldest timer that is due: "func.apply(context, args)"
TimeoutCallback ==
    \E t \in timers :
        /\ t.due <= now
        /\ \A u \in timers : t.due < u.due \/ (t.due = u.due /\ t.id <= u.id)
        /\ timers' = timers \ {t}
        /\ invocations' = Append(invocations,
               [context |-> t.context, args |-> t.args, at |-> now, call |-> t.id,
                seen |-> Len(callsMade)])
        /\ UNCHANGED <<delay, timeout, now, callsMade>>
        /\ UNCHANGED <<genVars, appVars, axis>>

\* a time unit passes
Tick ==
    /\ now < MaxTime
    /\ now' = now + 1
    /\ UNCHANGED <<delay, timeout, timers, callsMade, invocations>>
    /\ UNCHANGED <<genVars, appVars, axis>>

NextDebounce == CallDebounced \/ TimeoutCallback \/ Tick

\* a debounced function of some delay; the App and the generators are idle
InitDebounce ==
    /\ pc = "idle"
    /\ req = [kind |-> "sierpinskiTetrahedron", level |-> 0, size |-> Unit]
    /\ stack = <<>>
    /\ cur = 1
    /\ heap = [s \in 1..2 |-> EmptyOutput]
    /\ first = NoResult
    /\ inputs = {}
    /\ budget = 0
    /\ leafCalls = 0
    /\ objText = NoText
    /\ fractalParams = DEFAULT_FRACTAL_PARAMS
    /\ isPreviewDisabled = FALSE
    /\ isLoading = FALSE
    /\ isContinuousAutoRotateOn = FALSE
    /\ isAutoRotatingByInactivity = FALSE
    /\ isUserInteracting = FALSE
    /\ inactivityTimeoutIdRef = "spent"
    /\ animationFrameIdRef = 0
    /\ suspended = <<>>
    /\ resumed = NoRun
    /\ output = NoOutput
    /\ scene = {}
    /\ meshes = [m \in MeshIds |-> Unallocated]
    /\ fractalMeshRef = 0
    /\ generatedVerticesRef = <<>>
    /\ generatedFacesRef = <<>>
    /\ lastExport = NoExport
    /\ events = 0
    /\ \E d \in Delays : debounce(d)
    /\ axis = NoAxis

SpecDebounce == InitDebounce /\ [][NextDebounce]_vars

(***************************************************************************)
(* IEEE 754 double arithmetic, for one coordinate axis of subdivideCube on *)
(* the sizes of the size slider.  A natural number of any size is the      *)
(* sequence of its digits in base Limb, lowest digit first, without        *)
(* leading zeros.  A double is its sign and its magnitude as a whole       *)
(* number of 2^-FractionBits: every double that occurs is such a multiple. *)
(* A sum or a quotient is computed exactly and then rounded to Precision   *)
(* significant bits, to nearest, ties to even.                             *)
(***************************************************************************)
LimbBits == 20

Limb == 2^LimbBits

FractionBits == 3 * LimbBits

Precision == 53

Digit(a, n) == IF n <= Len(a) THEN a[n] ELSE 0

RECURSIVE Trim(_)
Trim(a) ==
    IF a # <<>> /\ a[Len(a)] = 0 THEN Trim(SubSeq(a, 1, Len(a) - 1)) ELSE a

RECURSIVE AddFrom(_, _, _, _)
AddFrom(a, b, n, carry) ==
    IF n > Len(a) /\ n > Len(b) THEN (IF carry = 0 THEN <<>> ELSE <<carry>>)
    ELSE LET x == Digit(a, n) + Digit(b, n) + carry
         IN  <<x % Limb>> \o AddFrom(a, b, n + 1, x \div Limb)

Plus(a, b) == AddFrom(a, b, 1, 0)

\* a - b for a >= b
RECURSIVE SubFrom(_, _, _, _)
SubFrom(a, b, n, borrow) ==
    IF n > Len(a) THEN <<>>
    ELSE LET x == Digit(a, n) - Digit(b, n) - borrow
         IN  <<IF x < 0 THEN x + Limb ELSE x>>
                 \o SubFrom(a, b, n + 1, IF x < 0 THEN 1 ELSE 0)

Minus(a, b) == Trim(SubFrom(a, b, 1, 0))

RECURSIVE LessFrom(_, _, _)
LessFrom(a, b, n) ==
    IF n = 0 THEN FALSE
    ELSE IF a[n] # b[n] THEN a[n] < b[n]
    ELSE LessFrom(a, b, n - 1)

Less(a, b) == IF Len(a) # Len(b) THEN Len(a) < Len(b) ELSE LessFrom(a, b, Len(a))

\* the digits 1..n of the quotient by a small divisor d, and the remainder
RECURSIVE DivFrom(_, _, _, _)
DivFrom(a, d, n, r) ==
    IF n = 0 THEN [q |-> <<>>, r |-> r]
    ELSE LET x == r * Limb + a[n]
             rest == DivFrom(a, d, n - 1, x % d)
         IN  [q |-> Append(rest.q, x \div d), r |-> rest.r]

Divide(a, d) ==
    LET x == DivFrom(a, d, Len(a), 0) IN [q |-> Trim(x.q), r |-> x.r]

RECURSIVE Bits(_)
Bits(n) == IF n = 0 THEN 0 ELSE 1 + Bits(n \div 2)

BitLength(a) == IF a = <<>> THEN 0 ELSE LimbBits * (Len(a) - 1) + Bits(a[Len(a)])

\* the bits of a below the Precision highest ones
DroppedBits(a) == BitLength(a) - Precision

\* the double nearest to a (plus a fraction of a unit when inexact)
RoundToDouble(a, inexact) ==
    LET d == DroppedBits(a)
    IN  IF d <= 0 THEN a
        ELSE LET low == a[1] % (2^d)
                 half == 2^(d - 1)
                 down == [a EXCEPT ![1] = @ - low]
                 up == Plus(down, <<2^d>>)
                 odd == (a[1] \div (2^d)) % 2 = 1
             IN  IF low > half \/ (low = half /\ (inexact \/ odd)) THEN up ELSE down

Zero == [neg |-> FALSE, mag |-> <<>>]

\* x + y
FAdd(x, y) ==
    IF x.neg = y.neg
    THEN [neg |-> x.neg, mag |-> RoundToDouble(Plus(x.mag, y.mag), FALSE)]
    ELSE IF Less(x.mag, y.mag)
    THEN [neg |-> y.neg, mag |-> RoundToDouble(Minus(y.mag, x.mag), FALSE)]
    ELSE [neg |-> x.neg /\ x.mag # y.mag,
          mag |-> RoundToDouble(Minus(x.mag, y.mag), FALSE)]

\* x - y
FSub(x, y) == FAdd(x, [y EXCEPT !.neg = ~@])

\* i * x for i = -1, 0, 1 and x > 0
FTimes(i, x) == IF i = 0 THEN Zero ELSE [neg |-> i < 0, mag |-> x.mag]

\* x / 3
FThird(x) ==
    LET d == Divide(x.mag, 3)
    IN  [neg |-> x.neg, mag |-> RoundToDouble(d.q, d.r # 0)]

\* x / 2
FHalf(x) == [neg |-> x.neg, mag |-> Divide(x.mag, 2).q]

\* parseFloat of the slider's value, a number of tenths written in decimal
parseFloat(tenths) ==
    LET d == Divide(<<0, 0, 0, tenths>>, 10)
    IN  [neg |-> FALSE, mag |-> RoundToDouble(d.q, d.r # 0)]

\* the x coordinates of subdivideCube: the center and the side length of a
\* call, and the x coordinate of the leaf corners computed so far
SliderTenths == SizeMin..SizeMax

AxisCall(size, center, sideLength, level) ==
    [size |-> size, center |-> center, sideLength |-> sideLength, level |-> level,
     vertices |-> <<>>]

\* "subdivideCube(new THREE.Vector3(0, 0, 0), size, level, ...)"
AxisRequests ==
    {AxisCall(parseFloat(t), Zero, parseFloat(t), l) : t \in SliderTenths, l \in 0..MaxLevel}

\* the recursive call for the grid index i on this axis
SubdivideAxis ==
    /\ axis # NoAxis
    /\ ~IsLeaf(axis.level)
    /\ \E i \in {-1, 0, 1} :
          LET newSideLength == FThird(axis.sideLength)
              offset == FTimes(i, newSideLength)
          IN  axis' = AxisCall(axis.size, FAdd(axis.center, offset), newSideLength,
                               axis.level - 1)
    /\ UNCHANGED <<genVars, appVars, debounceVars>>

\* a corner of the leaf: center.x - halfSide or center.x + halfSide
LeafAxis ==
    /\ axis # NoAxis
    /\ IsLeaf(axis.level)
    /\ axis.vertices = <<>>
    /\ LET halfSide == FHalf(axis.sideLength)
       IN  \E x \in {FSub(axis.center, halfSide), FAdd(axis.center, halfSide)} :
              axis' = [axis EXCEPT !.vertices = <<x>>]
    /\ UNCHANGED <<genVars, appVars, debounceVars>>

NextRounded == Next \/ SubdivideAxis \/ LeafAxis

\* a generator call on an exact input, or the x axis of a sponge of a size
\* of the slider
InitRounded ==
    \/ InitDeep
    \/ /\ pc = "idle"
       /\ req = [kind |-> "sierpinskiTetrahedron", level |-> 0, size |-> Unit]
       /\ stack = <<>>
       /\ cur = 1
       /\ heap = [s \in 1..2 |-> EmptyOutput]
       /\ first = NoResult
       /\ inputs = {}
       /\ budget = 0
       /\ leafCalls = 0
       /\ objText = NoText
       /\ Mounted
       /\ axis \in AxisRequests

SpecRounded == InitRounded /\ [][NextRounded]_vars

(***************************************************************************)
(* Model sanity: every division of the traversal is exact on the inputs    *)
(***************************************************************************)
ExactArithmetic ==
    \A d \in 1..Len(stack) :
        LET f == stack[d]
        IN  CASE f.fn = "subdivideTetrahedron" ->
                   IsLeaf(f.level) \/
                   \A m \in 1..4, n \in 1..4, c \in 1..3 : (f.a[m][c] + f.a[n][c]) % 2 = 0
              [] f.fn = "subdivideCube" ->
                   IF IsLeaf(f.level) THEN f.a.sideLength % 2 = 0
                   ELSE f.a.sideLength % 3 = 0
              [] f.fn = "subdivideOctahedron" ->
                   IsLeaf(f.level) \/ f.a.scale % 2 = 0

(***************************************************************************)
(* Properties                                                              *)
(***************************************************************************)
FaceIndices(f) == <<f.v1, f.v2, f.v3>>

\* C1: at every step of a traversal (after every addUniqueVertex call and
\* every leaf emission) bufferVertices has 3 entries per export vertex,
\* bufferIndices is the flattening of exportFaces, and every face index is
\* below exportVertices.length.
OutputConsistent ==
    LET o == Out
    IN  /\ Len(o.bufferVertices) = 3 * Len(o.exportVertices)
        /\ Len(o.bufferIndices) = 3 * Len(o.exportFaces)
        /\ \A n \in 1..Len(o.bufferIndices) :
              o.bufferIndices[n] = FaceIndices(o.exportFaces[(n + 2) \div 3])[((n - 1) % 3) + 1]
        /\ \A n \in 1..Len(o.exportFaces) : \A c \in 1..3 :
              /\ FaceIndices(o.exportFaces[n])[c] >= 0
              /\ FaceIndices(o.exportFaces[n])[c] < Len(o.exportVertices)

\* a leaf has just been emitted, deeper in the recursion, after an
\* addUniqueVertex call of it returned an index stored by an earlier leaf
WitnessOutputConsistent ==
    /\ pc = "running"
    /\ Len(stack) > 1
    /\ Top.emitted
    /\ Len(Out.exportFaces) > LoopLength(Top.fn)
    /\ \E n \in 1..Len(Top.idx) : Top.idx[n] + Len(Top.idx) < Len(Out.exportVertices)
\* C2: no emitted face has two equal vertex indices, for every valid input,
\* sizes below the weld precision included.
NoDegenerateFace ==
    \A n \in 1..Len(Out.exportFaces) :
        LET f == Out.exportFaces[n]
        IN  f.v1 # f.v2 /\ f.v2 # f.v3 /\ f.v1 # f.v3

\* 1e-5 in units of 1/Unit, rounded down: a difference of whole units is at
\* most 1e-5 iff it is at most Tolerance
Tolerance == Unit \div Pow(10, Decimals)

WithinTolerance(a, b) == \A c \in 1..3 : Abs(a[c] - b[c]) <= Tolerance

\* C3 as stated: no two distinct entries of exportVertices are within 1e-5 per
\* coordinate of each other.
NoTwoWithinTolerance ==
    \A m \in 1..Len(Out.exportVertices), n \in 1..Len(Out.exportVertices) :
        m # n => ~WithinTolerance(Out.exportVertices[m], Out.exportVertices[n])

\* C3 amended: no two distinct entries of exportVertices have the same
\* toFixed(5) key.
StoredKeysDistinct ==
    Cardinality({VertexKey(Out.exportVertices[n]) : n \in 1..Len(Out.exportVertices)})
        = Len(Out.exportVertices)

\* two stored entries of a returned output lie within the tolerance, on either
\* side of a rounding boundary (their digits differ, not only their signs),
\* and a lookup of the call has hit
WitnessStoredKeysDistinct ==
    /\ pc = "done"
    /\ 3 * Len(Out.exportVertices) < Len(Out.bufferIndices)
    /\ \E m \in 1..Len(Out.exportVertices), n \in 1..Len(Out.exportVertices) :
          /\ m # n
          /\ WithinTolerance(Out.exportVertices[m], Out.exportVertices[n])
          /\ \E c \in 1..3 : FixedDigits(Abs(Out.exportVertices[m][c]))
                                 # FixedDigits(Abs(Out.exportVertices[n][c]))
\* the four arrays a generator returns
Returned(o) == <<o.bufferVertices, o.bufferIndices, o.exportVertices, o.exportFaces>>

SameAsFirst ==
    (pc = "done" /\ first # NoResult /\ req = first.req)
        => Returned(heap[cur]) = Returned(heap[first.ref])

FirstKept ==
    (first # NoResult /\ first'.ref = first.ref)
        => Returned(heap'[first.ref]) = Returned(heap[first.ref])

\* C4: a call with the arguments of the caller's first call returns arrays
\* element-wise equal to the first call's, whatever calls were made in
\* between, and no step of a later call changes the arrays the first call
\* returned.
Deterministic == []SameAsFirst /\ [][FirstKept]_vars

\* a later call with the first call's arguments has returned, in arrays of
\* its own, after a call with other arguments
WitnessDeterministic ==
    /\ pc = "done"
    /\ first # NoResult
    /\ first.other
    /\ req = first.req
    /\ cur # first.ref
    /\ req.level > 0
    /\ Len(heap[first.ref].exportFaces) > 0

\* a frame d - 1 calls below the entry call has level req.level - (d - 1), and
\* only a frame of level 0 welds and emits
DepthIsLevel ==
    pc = "running" =>
        \A d \in 1..Len(stack) :
            /\ stack[d].level = req.level - (d - 1)
            /\ stack[d].level >= 0
            /\ (stack[d].idx # <<>> \/ stack[d].emitted) => stack[d].level = 0

ReturnsNonEmpty ==
    pc = "done" => Len(Out.exportVertices) > 0 /\ Len(Out.exportFaces) > 0

\* C5: every started generation returns, the recursion depth below the entry
\* call is the level (each call passes level - 1, the base case is taken at
\* level 0 only), and the returned exportVertices and exportFaces are not
\* empty.
TerminatesAtDepthLevel ==
    /\ []DepthIsLevel
    /\ []ReturnsNonEmpty
    /\ (pc = "running") ~> (pc = "done")

\* a generation of level 2 or more has returned
WitnessTerminatesAtDepthLevel ==
    /\ pc = "done"
    /\ req.level >= 2
    /\ Len(Out.exportFaces) > 0

\* the corners of the level-0 primitive of a kind
PrimitiveCorners(kind, size) ==
    CASE kind = "sierpinskiTetrahedron" ->
           {<<a * size, b * size, a * b * size>> : a \in {1, -1}, b \in {1, -1}}
      [] kind = "mengerSponge" ->
           {<<a * (size \div 2), b * (size \div 2), c * (size \div 2)>> :
               a \in {1, -1}, b \in {1, -1}, c \in {1, -1}}
      [] kind = "sierpinskiOctahedron" ->
           UNION {{<<a * size, 0, 0>>, <<0, a * size, 0>>, <<0, 0, a * size>>} :
                     a \in {1, -1}}

CornerKeysDistinct(kind, size) ==
    Cardinality({VertexKey(c) : c \in PrimitiveCorners(kind, size)})
        = Cardinality(PrimitiveCorners(kind, size))

\* C6: at level 0, when no two corners share a key, the tetrahedron returns 4
\* points and 4 faces, the sponge 8 and 12, the octahedron 6 and 8.
BaseCaseCounts ==
    (pc = "done" /\ req.level = 0 /\ CornerKeysDistinct(req.kind, req.size)) =>
        <<Len(Out.exportVertices), Len(Out.exportFaces)>> =
            CASE req.kind = "sierpinskiTetrahedron" -> <<4, 4>>
              [] req.kind = "mengerSponge" -> <<8, 12>>
              [] req.kind = "sierpinskiOctahedron" -> <<6, 8>>

\* a level-0 octahedron whose corners have six keys has returned
WitnessBaseCaseCounts ==
    /\ pc = "done"
    /\ req.level = 0
    /\ req.kind = "sierpinskiOctahedron"
    /\ CornerKeysDistinct(req.kind, req.size)
\* the index triples of the last k entries of exportFaces
LastFaces(k) ==
    [n \in 1..k |-> FaceIndices(Out.exportFaces[Len(Out.exportFaces) - k + n])]

\* v / e for a vector whose components are multiples of e
Scaled(v, e) == <<v[1] \div e, v[2] \div e, v[3] \div e>>

MaxAbs(v) ==
    IF Abs(v[1]) >= Abs(v[2]) /\ Abs(v[1]) >= Abs(v[3]) THEN Abs(v[1])
    ELSE IF Abs(v[2]) >= Abs(v[3]) THEN Abs(v[2]) ELSE Abs(v[3])

\* (b - a) x (c - a), up to the positive factor e * e
Normal(a, b, c, e) == Cross(Scaled(VSub(b, a), e), Scaled(VSub(c, a), e))

EmittedLeaf(fn) == pc = "running" /\ Top.fn = fn /\ IsLeaf(Top.level) /\ Top.emitted

\* C7: a leaf tetrahedron (p1,p2,p3,p4) emits the faces (p1,p3,p2),
\* (p1,p2,p4), (p1,p4,p3), (p2,p3,p4) in this order, and the normal
\* (b - a) x (c - a) of each face (a,b,c) points away from the leaf's fourth
\* vertex.
TetLeafFacesOutward ==
    EmittedLeaf("subdivideTetrahedron") =>
        LET p == Top.a
            idx == Top.idx
            e == MaxAbs(VSub(p[2], p[1]))
            order == << <<1, 3, 2>>, <<1, 2, 4>>, <<1, 4, 3>>, <<2, 3, 4>> >>
        IN  /\ LastFaces(4) = [k \in 1..4 |->
                                  <<idx[order[k][1]], idx[order[k][2]], idx[order[k][3]]>>]
            /\ \A k \in 1..4 :
                  LET a == p[order[k][1]]
                      b == p[order[k][2]]
                      c == p[order[k][3]]
                      d == p[CHOOSE n \in 1..4 : n \notin {order[k][1], order[k][2], order[k][3]}]
                  IN  Dot(Normal(a, b, c, e), Scaled(VSub(d, a), e)) < 0

\* the corner numbers of a cube whose coordinate on axis ax lies on the side
\* sgn of the center
CubeSide(corners, center, ax, sgn) ==
    {n \in 1..8 : (corners[n][ax] - center[ax]) * sgn > 0}

RowCorners(row) == {row[1], row[2], row[3]}

\* the rows of a table whose triangle lies in the side (ax, sgn) of the cube
\* and has its normal along ax, pointing away from the center
RowsOfSide(table, corners, center, e, ax, sgn) ==
    {k \in 1..Len(table) :
        LET nrm == Normal(corners[table[k][1]], corners[table[k][2]], corners[table[k][3]], e)
        IN  /\ RowCorners(table[k]) \subseteq CubeSide(corners, center, ax, sgn)
            /\ nrm[ax] * sgn > 0
            /\ \A o \in 1..3 : o # ax => nrm[o] = 0}

\* C8: a leaf cube emits exactly 12 triangles, two for each of its six faces;
\* the two of a face share a diagonal and cover the face's four corners, and
\* the normal of every triangle points away from the center along the axis of
\* its face.
CubeLeafFacesOutward ==
    EmittedLeaf("subdivideCube") =>
        LET corners == CubeCorners(Top.a.center, Top.a.sideLength)
            center == Top.a.center
            e == Top.a.sideLength
            rows(ax, sgn) == RowsOfSide(CubeFaceTable, corners, center, e, ax, sgn)
        IN  /\ Len(CubeFaceTable) = 12
            /\ Len(Out.exportFaces) >= 12
            /\ LastFaces(12) = FacesOf(CubeFaceTable, Top.idx)
            /\ UNION {rows(ax, sgn) : ax \in 1..3, sgn \in {1, -1}} = 1..12
            /\ \A ax \in 1..3, sgn \in {1, -1} :
                  /\ Cardinality(rows(ax, sgn)) = 2
                  /\ \E k1 \in rows(ax, sgn), k2 \in rows(ax, sgn) :
                        LET shared == RowCorners(CubeFaceTable[k1]) \cap RowCorners(CubeFaceTable[k2])
                        IN  /\ k1 # k2
                            /\ RowCorners(CubeFaceTable[k1]) \cup RowCorners(CubeFaceTable[k2])
                                  = CubeSide(corners, center, ax, sgn)
                            /\ Cardinality(shared) = 2
                            /\ \A m \in shared, n \in shared : m # n =>
                                  Cardinality({c \in 1..3 : corners[m][c] # corners[n][c]}) = 2

\* a leaf cube away from the origin has emitted its faces after another leaf
WitnessCubeLeafFacesOutward ==
    /\ EmittedLeaf("subdivideCube")
    /\ Len(stack) > 1
    /\ Top.a.center # <<0, 0, 0>>
    /\ Len(Out.exportFaces) > 12

Grid == {<<i, j, k>> : i \in {-1, 0, 1}, j \in {-1, 0, 1}, k \in {-1, 0, 1}}

AtMostOneZero == {g \in Grid : Cardinality({c \in 1..3 : g[c] = 0}) <= 1}

CallSet(f) == {f.calls[n] : n \in 1..Len(f.calls)}

\* C9: a non-leaf call of the sponge with center c and side L calls itself
\* exactly for the grid indices with at most one zero component, 20 of the 27,
\* each with center c + (i,j,k) * (L/3), side L/3 and level - 1.
CubeCallsAsGrid ==
    \A d \in 1..Len(stack) :
        LET f == stack[d]
            third == f.a.sideLength \div 3
            expected(g) ==
                [a |-> [center |-> <<f.a.center[1] + g[1] * third,
                                     f.a.center[2] + g[2] * third,
                                     f.a.center[3] + g[3] * third>>,
                        sideLength |-> third],
                 level |-> f.level - 1]
        IN  (f.fn = "subdivideCube" /\ f.level > 0) =>
               /\ Cardinality(AtMostOneZero) = 20
               /\ CallSet(f) \subseteq {expected(g) : g \in AtMostOneZero}
               /\ Cardinality(CallSet(f)) = Len(f.calls)
               /\ f.i = 27 => CallSet(f) = {expected(g) : g \in AtMostOneZero}
               /\ d < Len(stack) =>
                     /\ f.calls # <<>>
                     /\ stack[d + 1].a = f.calls[Len(f.calls)].a
                     /\ stack[d + 1].level = f.calls[Len(f.calls)].level

\* a non-leaf sponge call away from the origin has finished its loops
WitnessCubeCallsAsGrid ==
    /\ pc = "running"
    /\ Len(stack) > 1
    /\ Top.fn = "subdivideCube"
    /\ Top.level > 0
    /\ Top.a.center # <<0, 0, 0>>
    /\ Top.i = 27
    /\ Len(Top.calls) = 20

\* C10: a non-leaf call of the octahedron with center c and scale s makes
\* exactly six calls, with scale s/2, level - 1 and the centers c + (0,s/2,0),
\* c - (0,s/2,0), c + (s/2,0,0), c - (s/2,0,0), c + (0,0,s/2), c - (0,0,s/2):
\* the parent's center enters each child center once, at every depth.
OctCallsAsOffsets ==
    \A d \in 1..Len(stack) :
        LET f == stack[d]
            h == f.a.scale \div 2
            offsets == << <<0, h, 0>>, <<0, -h, 0>>, <<h, 0, 0>>,
                          <<-h, 0, 0>>, <<0, 0, h>>, <<0, 0, -h>> >>
            expected == [n \in 1..6 |->
                            [a |-> [center |-> <<f.a.center[1] + offsets[n][1],
                                                 f.a.center[2] + offsets[n][2],
                                                 f.a.center[3] + offsets[n][3]>>,
                                    scale |-> h],
                             level |-> f.level - 1]]
        IN  (f.fn = "subdivideOctahedron" /\ f.level > 0) =>
               /\ Len(f.calls) <= 6
               /\ f.calls = SubSeq(expected, 1, Len(f.calls))
               /\ Finished(f) => Len(f.calls) = 6
               /\ d < Len(stack) =>
                     /\ f.calls # <<>>
                     /\ stack[d + 1].a = f.calls[Len(f.calls)].a
                     /\ stack[d + 1].level = f.calls[Len(f.calls)].level

\* a non-leaf octahedron call away from the origin has made its six calls
WitnessOctCallsAsOffsets ==
    /\ pc = "running"
    /\ Len(stack) > 1
    /\ Top.fn = "subdivideOctahedron"
    /\ Top.level > 0
    /\ Top.a.center # <<0, 0, 0>>
    /\ Len(Top.calls) = 6
\* the points a leaf call passes to addUniqueVertex, in call order
CornersOf(f) ==
    CASE f.fn = "subdivideTetrahedron" -> f.a
      [] f.fn = "subdivideCube" -> CubeCorners(f.a.center, f.a.sideLength)
      [] f.fn = "subdivideOctahedron" -> OctCorners(f.a.center, f.a.scale)

\* this step is one addUniqueVertex call of the leaf on top of the stack
WeldStep ==
    /\ pc = "running" /\ pc' = "running"
    /\ Len(stack') = Len(stack)
    /\ Len(stack'[Len(stack')].idx) = Len(Top.idx) + 1

\* the point passed to that call, and the index the call returns
Passed == CornersOf(Top)[Len(Top.idx) + 1]

ReturnedIndex == stack'[Len(stack')].idx[Len(Top.idx) + 1]

\* a call whose key is in the map returns the index stored at the first
\* insertion of the key, and changes nothing
HitChangesNothing ==
    (WeldStep /\ VertexKey(Passed) \in DOMAIN Out.vertexMap) =>
        /\ heap' = heap
        /\ ReturnedIndex = Out.vertexMap[VertexKey(Passed)]
        /\ ReturnedIndex + 1 =
              CHOOSE n \in 1..Len(Out.exportVertices) :
                  /\ VertexKey(Out.exportVertices[n]) = VertexKey(Passed)
                  /\ \A m \in 1..(n - 1) :
                        VertexKey(Out.exportVertices[m]) # VertexKey(Passed)

\* no step of a call changes a stored point, its buffer entries or its index
StoredKept ==
    (pc = "running" /\ pc' = "running") =>
        /\ cur' = cur
        /\ SubSeq(heap'[cur].exportVertices, 1, Len(Out.exportVertices))
              = Out.exportVertices
        /\ SubSeq(heap'[cur].bufferVertices, 1, Len(Out.bufferVertices))
              = Out.bufferVertices
        /\ \A k \in DOMAIN Out.vertexMap :
              /\ k \in DOMAIN heap'[cur].vertexMap
              /\ heap'[cur].vertexMap[k] = Out.vertexMap[k]

\* C11: an addUniqueVertex call whose 5-decimal key is already in the map
\* returns the index given at the first insertion of that key and leaves
\* bufferVertices, exportVertices and the map unchanged; the coordinates
\* stored under an index stay those of the first occurrence through every
\* later step of the call.
FirstOccurrenceWins == [][HitChangesNothing /\ StoredKept]_vars

\* the last addUniqueVertex call returned the index of a stored point whose
\* coordinates differ from the point passed
WitnessFirstOccurrenceWins ==
    /\ pc = "running"
    /\ Top.idx # <<>>
    /\ Out.exportVertices[Top.idx[Len(Top.idx)] + 1] # CornersOf(Top)[Len(Top.idx)]
    /\ VertexKey(Out.exportVertices[Top.idx[Len(Top.idx)] + 1])
          = VertexKey(CornersOf(Top)[Len(Top.idx)])

\* the map's indices are 0..n-1, one per stored point, and the key of the
\* i-th point maps to i; the flat buffer holds the same coordinates
DenseIndexSpace ==
    LET o == Out
        n == Len(o.exportVertices)
    IN  /\ Cardinality(DOMAIN o.vertexMap) = n
        /\ {o.vertexMap[k] : k \in DOMAIN o.vertexMap} = 0..(n - 1)
        /\ \A i \in 1..n :
              /\ VertexKey(o.exportVertices[i]) \in DOMAIN o.vertexMap
              /\ o.vertexMap[VertexKey(o.exportVertices[i])] = i - 1
              /\ SubSeq(o.bufferVertices, 3 * i - 2, 3 * i) = o.exportVertices[i]

\* a call whose key is new appends the point as passed and returns the number
\* of points stored before it
MissAppends ==
    (WeldStep /\ VertexKey(Passed) \notin DOMAIN Out.vertexMap) =>
        /\ ReturnedIndex = Len(Out.exportVertices)
        /\ heap'[cur].exportVertices = Append(Out.exportVertices, Passed)
        /\ heap'[cur].bufferVertices = Out.bufferVertices \o Passed
        /\ heap'[cur].vertexMap = Out.vertexMap @@ (VertexKey(Passed) :> ReturnedIndex)
        /\ heap'[cur].bufferIndices = Out.bufferIndices
        /\ heap'[cur].exportFaces = Out.exportFaces

\* C12: an addUniqueVertex call whose key is new appends the unrounded point to
\* exportVertices and its coordinates to bufferVertices, maps the key to the
\* new index, which is the number of points stored before the call, and
\* returns it; so the map's indices are always exactly 0..n-1 and the key of
\* exportVertices[i] maps to i.
NewKeyAppends == []DenseIndexSpace /\ [][MissAppends]_vars

\* a returned output stores, next to points welded from several leaves, a point
\* with a non-zero coordinate that rounds to 0.00000
WitnessNewKeyAppends ==
    /\ pc = "done"
    /\ req.level > 0
    /\ Len(Out.exportVertices) > 4
    /\ \E i \in 1..Len(Out.exportVertices), c \in 1..3 :
          /\ Out.exportVertices[i][c] # 0
          /\ FixedDigits(Abs(Out.exportVertices[i][c])) = 0

SpongeOneThree == [kind |-> "mengerSponge", level |-> 1, size |-> 3 * Unit]

\* C13: generateMengerSponge(1, 3) makes exactly 20 calls at level 0, returns
\* exactly 240 faces, and fewer than 160 points.
SpongeLevelOne ==
    req = SpongeOneThree =>
        /\ (pc = "running" /\ Len(stack) = 1) =>
              /\ \A n \in 1..Len(Top.calls) : Top.calls[n].level = 0
              /\ Finished(Top) => Len(Top.calls) = 20
        /\ pc = "done" =>
              /\ Len(Out.exportFaces) = 240
              /\ Len(Out.exportVertices) < 160

\* generateMengerSponge(1, 3) has returned
WitnessSpongeLevelOne ==
    /\ pc = "done"
    /\ req = SpongeOneThree
    /\ Len(Out.exportFaces) > 12

OctZeroOne == [kind |-> "sierpinskiOctahedron", level |-> 0, size |-> Unit]

\* C14: generateSierpinskiOctahedron(0, 1) returns the points (0,1,0),
\* (0,-1,0), (1,0,0), (-1,0,0), (0,0,1), (0,0,-1) at the indices 0..5 and the
\* faces (0,4,2), (0,2,5), (0,5,3), (0,3,4), (1,2,4), (1,5,2), (1,3,5),
\* (1,4,3), in this order.
OctLevelZero ==
    (pc = "done" /\ req = OctZeroOne) =>
        /\ Out.exportVertices =
              << <<0, Unit, 0>>, <<0, -Unit, 0>>, <<Unit, 0, 0>>,
                 <<-Unit, 0, 0>>, <<0, 0, Unit>>, <<0, 0, -Unit>> >>
        /\ [n \in 1..Len(Out.exportFaces) |-> FaceIndices(Out.exportFaces[n])] =
              << <<0, 4, 2>>, <<0, 2, 5>>, <<0, 5, 3>>, <<0, 3, 4>>,
                 <<1, 2, 4>>, <<1, 5, 2>>, <<1, 3, 5>>, <<1, 4, 3>> >>

\* generateSierpinskiOctahedron(0, 1) has returned
WitnessOctLevelZero ==
    /\ pc = "done"
    /\ req = OctZeroOne
    /\ Len(Out.exportFaces) > 0

\* the cells a non-leaf call recurses into, and the faces and corners of a leaf
CellsPerCall(kind) ==
    CASE kind = "sierpinskiTetrahedron" -> 4
      [] kind = "mengerSponge" -> 20
      [] kind = "sierpinskiOctahedron" -> 6

FacesPerLeaf(kind) ==
    CASE kind = "sierpinskiTetrahedron" -> 4
      [] kind = "mengerSponge" -> 12
      [] kind = "sierpinskiOctahedron" -> 8

CornersPerLeaf(kind) ==
    CASE kind = "sierpinskiTetrahedron" -> 4
      [] kind = "mengerSponge" -> 8
      [] kind = "sierpinskiOctahedron" -> 6

\* C20: a generation of level L takes the base case exactly 4^L times
\* (tetrahedron), 20^L times (sponge), 6^L times (octahedron), and returns
\* exactly 4 * 4^L, 12 * 20^L, 8 * 6^L faces; the points are at most the
\* corners of the leaves.
LeafAndFaceCounts ==
    pc = "done" =>
        LET leaves == Pow(CellsPerCall(req.kind), req.level)
        IN  /\ leafCalls = leaves
            /\ Len(Out.exportFaces) = FacesPerLeaf(req.kind) * leaves
            /\ Len(Out.exportVertices) <= CornersPerLeaf(req.kind) * leaves

\* a generation of level 2 has returned, with fewer points than leaf corners
WitnessLeafAndFaceCounts ==
    /\ pc = "done"
    /\ req.level = 2
    /\ leafCalls > CellsPerCall(req.kind)
    /\ Len(Out.exportVertices) < CornersPerLeaf(req.kind) * leafCalls

\* reading a number back: the multiple of 1/Unit that the digits denote
RECURSIVE FractionValue(_)
FractionValue(d) ==
    IF d = <<>> THEN 0 ELSE (Head(d) * Unit + FractionValue(Tail(d))) \div 10

ParseNumber(t) ==
    LET magnitude == t.integer * Unit + FractionValue(t.fraction)
    IN  IF t.negative THEN -magnitude ELSE magnitude

IsLine(tag, line) == line[1] = tag

LinesOf(tag, text) == SelectSeq(text, LAMBDA line : IsLine(tag, line))

\* C17: the exported text is one header line with kind, level and size, then
\* one "v" line per point in points order, then one "f" line per face in
\* faces order whose indices are the face's indices plus 1, each in
\* 1..points.length.
ObjTextLayout ==
    objText # NoText =>
        LET points == Out.exportVertices
            faces == Out.exportFaces
            nV == Len(points)
            nF == Len(faces)
        IN  /\ Len(objText) = 1 + nV + nF
            /\ objText[1][1] = "#"
            /\ <<objText[1][2], objText[1][3], ParseNumber(objText[1][4])>>
                  = <<req.kind, req.level, req.size>>
            /\ \A i \in 1..nV :
                  /\ objText[1 + i][1] = "v"
                  /\ Len(objText[1 + i]) = 4
                  /\ \A c \in 1..3 : ParseNumber(objText[1 + i][c + 1]) = points[i][c]
            /\ \A j \in 1..nF :
                  /\ objText[1 + nV + j] =
                        <<"f", faces[j].v1 + 1, faces[j].v2 + 1, faces[j].v3 + 1>>
                  /\ \A c \in 2..4 : objText[1 + nV + j][c] \in 1..nV

\* the output of a generation of level 1 or more has been exported
WitnessObjTextLayout ==
    /\ objText # NoText
    /\ req.level > 0
    /\ Len(LinesOf("v", objText)) > 4
    /\ Len(LinesOf("f", objText)) > Len(LinesOf("v", objText))

ParsedPoints(text) ==
    [i \in 1..Len(LinesOf("v", text)) |->
        LET line == LinesOf("v", text)[i]
        IN  <<ParseNumber(line[2]), ParseNumber(line[3]), ParseNumber(line[4])>>]

ParsedFaces(text) ==
    [j \in 1..Len(LinesOf("f", text)) |->
        LET line == LinesOf("f", text)[j]
        IN  [v1 |-> line[2] - 1, v2 |-> line[3] - 1, v3 |-> line[4] - 1]]

\* C18: parsing the "v" and "f" lines of the exported text, with 1 subtracted
\* from each face index, gives as many points as were exported, in the same
\* order and each coordinate within 1e-5, and exactly the exported faces in
\* the same order.
RoundTrip ==
    objText # NoText =>
        /\ Len(ParsedPoints(objText)) = Len(Out.exportVertices)
        /\ \A i \in 1..Len(Out.exportVertices) : \A c \in 1..3 :
              Abs(ParsedPoints(objText)[i][c] - Out.exportVertices[i][c]) <= Tolerance
        /\ ParsedFaces(objText) = Out.exportFaces

\* an exported output has a negative coordinate with a non-zero fraction
WitnessRoundTrip ==
    /\ objText # NoText
    /\ Len(Out.exportFaces) > 4
    /\ \E i \in 1..Len(Out.exportVertices), c \in 1..3 :
          /\ Out.exportVertices[i][c] < 0
          /\ Out.exportVertices[i][c] % Unit # 0

\* the precondition of the generators: an integer level from 0 to the maximum
\* of the type, a finite size above 0 (a size is a number of tenths)
ValidArguments(type, call) ==
    /\ call.level \in Int
    /\ call.level >= 0
    /\ call.level <= MAX_LEVELS[type]
    /\ call.size \in Int
    /\ call.size > 0

\* C15: whatever the control panel was used for since the mount, every
\* generator call of generateFractalLogic gets an integer level with
\* 0 <= level <= MAX_LEVELS[type] and a finite size > 0.
GeneratorArgumentsValid ==
    resumed # NoRun => ValidArguments(resumed.params.type, GeneratorCall(resumed.params))

\* a generator was called, and returned, with a level and a size that both
\* come from the sliders
WitnessGeneratorArgumentsValid ==
    /\ resumed # NoRun
    /\ output.status = "returned"
    /\ resumed.params.level # DEFAULT_FRACTAL_PARAMS.level
    /\ resumed.params.size # DEFAULT_FRACTAL_PARAMS.size

\* this step discards the previous result: it empties a stored array or
\* takes the displayed mesh away
Discards ==
    \/ Len(generatedVerticesRef) > 0 /\ generatedVerticesRef' = <<>>
    \/ Len(generatedFacesRef) > 0 /\ generatedFacesRef' = <<>>
    \/ fractalMeshRef # 0 /\ fractalMeshRef' # fractalMeshRef

\* C16: in every run of generateFractalLogic the previous mesh and the stored
\* points and faces are discarded only once the generator call of the run has
\* returned.
DiscardedAfterGeneration == [][Discards => output.status = "returned"]_vars

\* the rotation of the mesh fractalMeshRef refers to, in turns
Turns == meshes[fractalMeshRef].turns

\* a frame of the animation loop, with a fractal mesh in the scene
FrameWithMesh ==
    /\ animationFrameIdRef' # animationFrameIdRef
    /\ fractalMeshRef # 0
    /\ fractalMeshRef \in scene

\* with the button off, a frame after the inactivity delay has elapsed, and
\* without an interaction in progress, advances the rotation
InactivityRotates ==
    (FrameWithMesh /\ ~isContinuousAutoRotateOn /\ isAutoRotatingByInactivity
        /\ ~isUserInteracting)
        => meshes'[fractalMeshRef].turns = Turns + 1

\* an interaction stops the wait and the rotation; its end, with the button
\* off, starts the wait again
InteractionRestartsWait ==
    /\ (~isUserInteracting /\ isUserInteracting') =>
          inactivityTimeoutIdRef' # "pending" /\ ~isAutoRotatingByInactivity'
    /\ (isUserInteracting /\ ~isUserInteracting' /\ ~isContinuousAutoRotateOn') =>
          inactivityTimeoutIdRef' = "pending"

\* C19: with the auto-rotate button off and a fractal mesh in the scene, once
\* AUTO_ROTATE_DELAY has passed without an interaction every animation frame
\* advances the rotation of the mesh until the user interacts again, and an
\* interaction before the delay has passed restarts the wait.
RotatesAfterInactivity == [][InactivityRotates /\ InteractionRestartsWait]_vars

\* the three state values as the current render has them
CurrentScope ==
    [isContinuousAutoRotateOn |-> isContinuousAutoRotateOn,
     isAutoRotatingByInactivity |-> isAutoRotatingByInactivity,
     isUserInteracting |-> isUserInteracting]

\* C21: with a fractal mesh in the scene, an animation frame advances the
\* rotation of the mesh by AUTO_ROTATE_SPEED exactly when the current values
\* of isContinuousAutoRotateOn, isAutoRotatingByInactivity and
\* isUserInteracting ask for it: on every frame while the auto-rotate button
\* is on, and not for the button's sake once it is off again.
RotationFollowsState ==
    [][FrameWithMesh =>
          meshes'[fractalMeshRef].turns =
              Turns + (IF ShouldRotate(CurrentScope) THEN 1 ELSE 0)]_vars

\* the request named by the header of the last export
HeaderOf(export) ==
    [type |-> export.type, level |-> export.level, size |-> export.size]

\* the exported points and faces were generated from the header's request
ExportMatchesHeader ==
    lastExport # NoExport =>
        /\ lastExport.points = PointsFor(HeaderOf(lastExport))
        /\ lastExport.faces = FacesFor(HeaderOf(lastExport))

\* a generateFractalLogic call was started and has not reached its "finally"
RunUnfinished == suspended # <<>> \/ resumed # NoRun

\* C22: whenever an export has been performed, after any interleaving of
\* parameter changes, overlapping generateFractalLogic runs and export clicks
\* on the enabled button, the exported points and faces were generated from
\* the type, level and size written in the header; and isLoading is true
\* whenever a started run has not finished.
ExportConsistent ==
    /\ ExportMatchesHeader
    /\ RunUnfinished => isLoading

\* the scene holds no fractal mesh but the one fractalMeshRef refers to, and
\* every other mesh that was created is out of the scene and disposed
OneMeshInScene ==
    /\ Cardinality(scene) <= 1
    /\ scene \subseteq {fractalMeshRef}
    /\ \A m \in MeshIds :
          (meshes[m].allocated /\ m # fractalMeshRef) =>
              m \notin scene /\ meshes[m].disposed

\* this step ends a run whose generator call has returned
RunStores == resumed # NoRun /\ output.status = "returned" /\ resumed' = NoRun

\* a run with isPreviewDisabled true stores its points and faces and adds no
\* mesh
PreviewDisabledAddsNoMesh ==
    (RunStores /\ resumed.isPreviewDisabled) =>
        /\ UNCHANGED sceneVars
        /\ scene' = {}
        /\ generatedVerticesRef' = output.exportVertices
        /\ generatedFacesRef' = output.exportFaces
        /\ Len(generatedVerticesRef') > 0
        /\ Len(generatedFacesRef') > 0

\* C23: after any sequence of generateFractalLogic runs, overlapping or not,
\* the scene contains at most one fractal mesh and that is the one
\* fractalMeshRef refers to; every mesh added before has been removed from the
\* scene and disposed; and a run with isPreviewDisabled true adds no mesh and
\* still stores the generated points and faces.
AtMostOneFractalMesh == []OneMeshInScene /\ [][PreviewDisabledAddsNoMesh]_vars

\* a mesh was shown, then a run with the preview disabled has disposed it and
\* stored its own output
WitnessAtMostOneFractalMesh ==
    /\ resumed = NoRun
    /\ isPreviewDisabled
    /\ scene = {}
    /\ \E m \in MeshIds : meshes[m].allocated /\ meshes[m].disposed
    /\ Len(generatedVerticesRef) > 0

\* at most one timer of the debounced function is pending
AtMostOneTimer == Cardinality(timers) <= 1

\* a call leaves its own timer pending and no other
CallCancelsPrevious ==
    (callsMade' # callsMade) =>
        timers' = {[id |-> Len(callsMade'), context |-> callsMade'[Len(callsMade')].context,
                    args |-> callsMade'[Len(callsMade')].args, due |-> now + delay]}

\* func is not invoked while the timer of a later call is pending
NotInvokedWhileLaterPending ==
    (invocations' # invocations) =>
        \A t \in timers' : t.id <= invocations'[Len(invocations')].call

\* every invocation is for another call, with the this-value and the
\* arguments of that call
InvokedAsCalled ==
    /\ \A i \in 1..Len(invocations) :
          /\ invocations[i].context = callsMade[invocations[i].call].context
          /\ invocations[i].args = callsMade[invocations[i].call].args
    /\ \A i, j \in 1..Len(invocations) :
          invocations[i].call = invocations[j].call => i = j

\* call k is the last call of a maximal burst of calls less than delay apart
BurstEnd(k) ==
    k = Len(callsMade) \/ callsMade[k + 1].at - callsMade[k].at >= delay

\* func is invoked for the last call of each burst and for no other call,
\* delay after that call
OncePerBurst ==
    /\ \A i \in 1..Len(invocations) :
          /\ BurstEnd(invocations[i].call)
          /\ invocations[i].at = callsMade[invocations[i].call].at + delay
    /\ \A k \in 1..Len(callsMade) :
          (BurstEnd(k) /\ now > callsMade[k].at + delay) =>
              \E i \in 1..Len(invocations) : invocations[i].call = k

\* C25, as stated: at most one timer is pending, each call cancels the timer
\* of the call before it, func is never invoked while a later call's timer is
\* pending, and func is invoked exactly once for each maximal burst of calls
\* less than delay apart, with the arguments and this-value of the last call
\* of the burst, delay after that call.
DebouncedOncePerBurst ==
    /\ [](AtMostOneTimer /\ InvokedAsCalled /\ OncePerBurst)
    /\ [][CallCancelsPrevious /\ NotInvokedWhileLaterPending]_vars

\* func is invoked only for the call that is the latest one when the timer
\* callback runs, not before delay has elapsed since that call; the pending
\* timer is that of the latest call, and the latest call has either its timer
\* pending or its invocation done
OncePerUninterruptedCall ==
    /\ \A i \in 1..Len(invocations) :
          /\ invocations[i].call = invocations[i].seen
          /\ invocations[i].at >= callsMade[invocations[i].call].at + delay
    /\ \A t \in timers :
          /\ t.id = Len(callsMade)
          /\ t.due = callsMade[t.id].at + delay
    /\ Len(callsMade) > 0 =>
          \/ \E t \in timers : t.id = Len(callsMade)
          \/ \E i \in 1..Len(invocations) : invocations[i].call = Len(callsMade)

\* C25, amended: at most one timer is pending, each call cancels the timer of
\* the call before it, func is never invoked while a later call's timer is
\* pending, and func is invoked exactly once for each call that no other call
\* follows before its timer callback runs, with the arguments and this-value
\* of that call, delay or more after it.
DebouncedOncePerLastCall ==
    /\ [](AtMostOneTimer /\ InvokedAsCalled /\ OncePerUninterruptedCall)
    /\ [][CallCancelsPrevious /\ NotInvokedWhileLaterPending]_vars

\* two calls delay or more apart were merged: the callback of the first had
\* not run when the second call was made, and func ran once, for the second,
\* later than delay after it
WitnessDebouncedOncePerLastCall ==
    /\ Len(callsMade) = 2
    /\ callsMade[2].at - callsMade[1].at >= delay
    /\ Len(invocations) = 1
    /\ invocations[1].call = 2
    /\ invocations[1].args # callsMade[1].args
    /\ invocations[1].at > callsMade[2].at + delay

\* inside the tetrahedron (s,s,s), (s,-s,-s), (-s,s,-s), (-s,-s,s): within
\* the cube of half side s and on the inner side of the four face planes
InsideTetrahedron(v, size) ==
    /\ \A c \in 1..3 : Abs(v[c]) <= size
    /\ v[1] + v[2] + v[3] >= -size
    /\ v[1] - v[2] - v[3] >= -size
    /\ -v[1] + v[2] - v[3] >= -size
    /\ -v[1] - v[2] + v[3] >= -size

InsideCube(v, size) == \A c \in 1..3 : 2 * Abs(v[c]) <= size

InsideOctahedron(v, size) == Abs(v[1]) + Abs(v[2]) + Abs(v[3]) <= size

InsidePrimitive(kind, v, size) ==
    CASE kind = "sierpinskiTetrahedron" -> InsideTetrahedron(v, size)
      [] kind = "mengerSponge" -> InsideCube(v, size)
      [] kind = "sierpinskiOctahedron" -> InsideOctahedron(v, size)

\* every point stored by the generator call lies inside the level-0 primitive
GeneratedInside ==
    pc # "idle" =>
        \A i \in 1..Len(Out.exportVertices) :
            InsidePrimitive(req.kind, Out.exportVertices[i], req.size)

\* the x coordinate of a sponge corner is in [-size/2, size/2]
AxisInside ==
    axis # NoAxis =>
        \A n \in 1..Len(axis.vertices) :
            ~Less(FHalf(axis.size).mag, axis.vertices[n].mag)

\* the distance from a double to the next one above it
UnitInLastPlace(x) == IF DroppedBits(x.mag) >= 0 THEN <<2^DroppedBits(x.mag)>> ELSE <<>>

\* the x coordinate of a sponge corner is in [-size/2, size/2] or next to it
AxisInsideRounded ==
    axis # NoAxis =>
        \A n \in 1..Len(axis.vertices) :
            ~Less(Plus(FHalf(axis.size).mag, UnitInLastPlace(FHalf(axis.size))),
                  axis.vertices[n].mag)

====
